---- MODULE Spec2Model ----
(***************************************************************************)
(* Model of openmdao.main.resource: the ResourceAllocationManager          *)
(* singleton (get_instance, add_allocator, insert_allocator, allocate,     *)
(* _allocate, _get_scores, release), LocalAllocator.rate_resource and      *)
(* ClusterAllocator.deploy, run by concurrent caller threads.              *)
(***************************************************************************)
EXTENDS Integers, Sequences, FiniteSets, TLC

(* ---------------------------------------------------------------- bounds *)
\* Number of caller threads.
NumThreads == 2
\* Total number of API calls the callers issue in one run.
MaxOps == 3
\* Number of machines of the cluster (resource.py:300).
NumMachines == 1
\* Cap of the allocation counter: no deploy is issued beyond it.
MaxAllocations == 12
\* Largest number of keys of a request rated on its own.
MaxKeys == 2

(* ------------------------------------------------------- program constants *)
\* _allocate gives up when deployment_retries > 10.
RetryLimit == 10
\* LocalAllocator.__init__ defaults.
total_cpus == 1
max_load == 2

Threads == 1 .. NumThreads
NoThread == 0
\* Index 0 stands for best_allocator = None.
NoAllocator == 0

\* Score contract of rate_resource: -2 unsupported, -1 no resource now,
\* 0 no estimate, > 0 an estimate of walltime (two representatives).
Scores == {-2, -1, 0, 1, 2}

\* 1-minute load averages os.getloadavg() may report; NoLoadAvg stands for a
\* platform without os.getloadavg (AttributeError).
NoLoadAvg == -1
Loads == {NoLoadAvg, 1, 2, 3}

\* resource_desc.items(): a sequence of <<key, value>> pairs.
\* sys.version[:3] of the running interpreter is "2.6".
PythonVersion == "2.6"
Requests ==
    { << <<"n_cpus", 1>> >>,
      << <<"localhost", FALSE>> >> }

\* What a deploy call can do: return a server proxy, return None, raise.
DeployOutcomes == {"server", "None", "raise"}

\* What server.cleanup() in release can do: return, or raise an Exception;
\* and the same for the call of ram._logger.warning.
CleanupOutcomes == {"ok", "Exception"}
LogOutcomes == {"ok", "Exception"}

\* Host identities ClusterAllocator.deploy can resolve: 0 stands for the
\* AttributeError fallback '127.0.0.1', 1 .. NumMachines for the machines.
HostIps == 0 .. NumMachines

VARIABLES
    ram,                \* ResourceAllocationManager._RAM is not None
    ramCreated,         \* history: number of managers constructed
    lock,               \* holder of ResourceAllocationManager._lock
    allocators,         \* ram._allocators: the class of each allocator
    allocations,        \* ram._allocations
    pc,                 \* per thread: position in the call it runs
    op,                 \* per thread: the API call it runs
    resource_desc,      \* per thread: argument of allocate
    deployment_retries, \* per thread: local of _allocate
    best_score,         \* per thread: local of _allocate
    best_allocator,     \* per thread: index into allocators, 0 for None
    name,               \* per thread: n of 'Sim-<n>' handed to deploy
    result,             \* per thread: how its last allocate call ended
    rated,              \* history: scores returned in the last scoring pass
    passes,             \* history: scoring passes of the current call
    deploys,            \* history: deploy calls of the current call
    lastOutcome,        \* history: outcome of the last deploy call
    clusterLock,        \* holder of the ClusterAllocator's self._lock
    local_allocators,   \* ClusterAllocator.local_allocators: per host_ip,
                        \* 0 (no entry) or the number of the instance cached
    created,            \* history: per host_ip, instances created so far
    host_ip,            \* per thread: local of ClusterAllocator.deploy
    forwarded,          \* history: instance the call was forwarded to
    deployLog,          \* history: names handed to deploy, in issue order
    ops,                \* number of API calls issued so far
    observe,            \* the per-call history is recorded and kept
    registrable,        \* classes of allocators the application registers
    rating              \* history: << resource_desc, load, result >> of the
                        \* last LocalAllocator.rate_resource call made on
                        \* its own, << >> before the first

\* The manager object, the locals of a call, the per-call history.
managerVars == << ram, ramCreated, allocators, allocations >>
frameVars == << resource_desc, deployment_retries, best_score,
                best_allocator, name >>
histVars == << result, rated, passes, deploys, lastOutcome >>
scenarioVars == << observe, registrable, rating >>
clusterVars == << clusterLock, local_allocators, created, host_ip,
                  forwarded >>

vars == << managerVars, lock, pc, op, frameVars, histVars, clusterVars,
           deployLog, ops, scenarioVars >>

(* ------------------------------------------------------------ pure parts *)

\* A lock that excludes nobody.
LockAvailable_NoExclusion == TRUE

\* threading.Lock: acquire succeeds only when nobody holds the lock.
LockAvailable == lock = NoThread

\* A cluster lock that excludes nobody.
ClusterLockAvailable_NoExclusion == TRUE

\* The same for the lock of the ClusterAllocator.
ClusterLockAvailable == clusterLock = NoThread

\* The update condition of _get_scores (resource.py:115-117).
Adopt(best, score) ==
    \/ (best = -2 /\ score >= -1)
    \/ (best = 0  /\ score > 0)
    \/ (best > 0  /\ score < best)

\* The loop of _get_scores over the scores sc[i .. Len(sc)], with running
\* best = <<best_score, index of best_allocator>>.
RECURSIVE GetScoresFrom(_, _, _)
GetScoresFrom(sc, i, best) ==
    IF i > Len(sc) THEN best
    ELSE GetScoresFrom(sc, i + 1,
                       IF Adopt(best[1], sc[i]) THEN << sc[i], i >> ELSE best)

\* A scan that starts from the shortage score instead of -2.
GetScores_FromShortage(sc) == GetScoresFrom(sc, 1, << -1, NoAllocator >>)

\* _get_scores: best starts as (-2, None).
GetScores(sc) == GetScoresFrom(sc, 1, << -2, NoAllocator >>)

\* The keys LocalAllocator.rate_resource has a branch for.
RecognizedKeys ==
    {"localhost", "n_cpus", "required_distributions", "orphan_modules",
     "python_version"}

\* The items a request can hold. The value of 'required_distributions' and
\* of 'orphan_modules' stands for the part of it that check_requirements,
\* or __import__, does not find; 'max_cpus' and 'bogus' are keys the
\* allocator has no branch for.
Items ==
    { <<"localhost", TRUE>>, <<"localhost", FALSE>>,
      <<"n_cpus", 1>>, <<"n_cpus", 2>>,
      <<"required_distributions", {}>>,
      <<"required_distributions", {"dist"}>>,
      <<"orphan_modules", {}>>, <<"orphan_modules", {"mod"}>>,
      <<"python_version", "2.6">>, <<"python_version", "2.5">>,
      <<"max_cpus", 1>>, <<"bogus", 0>> }

\* resource_desc.items() of the requests of at most MaxKeys keys: a dict
\* holds each key once and is visited in any order.
RateRequests ==
    UNION { { d \in [1 .. n -> Items] :
                \A i, j \in 1 .. n : i # j => d[i][1] # d[j][1] } :
            n \in 0 .. MaxKeys }

\* Key checks that skip a key they do not know.
KeyUnsupported_IgnoreUnknown(item) ==
    LET key == item[1]
        value == item[2]
    IN  IF key = "localhost" THEN value = FALSE
        ELSE IF key = "n_cpus" THEN value > total_cpus
        ELSE IF key = "required_distributions" THEN value # {}
        ELSE IF key = "orphan_modules" THEN value # {}
        ELSE IF key = "python_version" THEN value # PythonVersion
        ELSE FALSE

\* The key checks of LocalAllocator.rate_resource for one item: TRUE when
\* the item makes the request unsupported (-2).
KeyUnsupported(item) ==
    LET key == item[1]
        value == item[2]
    IN  IF key = "localhost" THEN value = FALSE
        ELSE IF key = "n_cpus" THEN value > total_cpus
        ELSE IF key = "required_distributions" THEN value # {}
        ELSE IF key = "orphan_modules" THEN value # {}
        ELSE IF key = "python_version" THEN value # PythonVersion
        ELSE TRUE

\* The loop `for key, value in resource_desc.items()`: the index of the
\* first item, from i on, at which rate_resource returns; 0 when the loop
\* runs to its end.
RECURSIVE FirstUnsupported(_, _)
FirstUnsupported(desc, i) ==
    IF i > Len(desc) THEN 0
    ELSE IF KeyUnsupported(desc[i]) THEN i
    ELSE FirstUnsupported(desc, i + 1)

\* A load test that lets a load equal to max_load pass.
LoadBelowMax_Inclusive(load) == load <= max_load

\* `if loadavgs[0] < self.max_load`.
LoadBelowMax(load) == load < max_load

\* LocalAllocator.rate_resource: << score, criteria >> for the items desc
\* under the 1-minute load average load. Criteria << "item", key, value >>
\* stands for {key : value}, << "empty" >> for {} and
\* << "loadavgs", load, max_load >> for the dict of load figures.
rate_resource(desc, load) ==
    LET i == FirstUnsupported(desc, 1)
    IN  IF i # 0 THEN << -2, << "item", desc[i][1], desc[i][2] >> >>
        ELSE IF load = NoLoadAvg THEN << 0, << "empty" >> >>
        ELSE IF LoadBelowMax(load)
        THEN << 0, << "loadavgs", load, max_load >> >>
        ELSE << -1, << "loadavgs", load, max_load >> >>

\* LocalAllocator.rate_resource: the score for request desc under load.
LocalRate(desc, load) == rate_resource(desc, load)[1]

\* The scores allocator a can return for request desc.
RateSet(a, desc) ==
    IF a = "Local" THEN { LocalRate(desc, l) : l \in Loads }
    ELSE IF a = "Cluster" THEN {0}
    ELSE Scores

\* The score vectors one scoring pass over the allocator list can collect.
RateVectors(list, desc) ==
    { sc \in [1 .. Len(list) -> Scores] :
        \A i \in 1 .. Len(list) : sc[i] \in RateSet(list[i], desc) }

\* An insert that stores x over the element at the index.
ListInsert_Overwrite(s, index, x) ==
    LET n == Len(s)
        i0 == IF index < 0 THEN index + n ELSE index
        i == IF i0 < 0 THEN 0 ELSE IF i0 > n THEN n ELSE i0
    IN  IF i < n THEN [s EXCEPT ![i + 1] = x] ELSE Append(s, x)

\* list.insert(index, x) of Python: negative indices count from the end,
\* out-of-range indices are clamped.
ListInsert(s, index, x) ==
    LET n == Len(s)
        i0 == IF index < 0 THEN index + n ELSE index
        i == IF i0 < 0 THEN 0 ELSE IF i0 > n THEN n ELSE i0
    IN  SubSeq(s, 1, i) \o << x >> \o SubSeq(s, i + 1, n)

\* The allocators the callers may register: a new allocator of another
\* class honouring the contract, or the application's ClusterAllocator
\* (once).
NewAllocators ==
    registrable \ { a \in {"Cluster"} :
                       \E i \in 1 .. Len(allocators) : allocators[i] = a }

(* ------------------------------------------------------------------ Init *)
InitWith(obs, classes) ==
    /\ ram = FALSE
    /\ ramCreated = 0
    /\ lock = NoThread
    /\ allocators = << >>
    /\ allocations = 0
    /\ pc = [t \in Threads |-> "idle"]
    /\ op = [t \in Threads |-> "none"]
    /\ resource_desc = [t \in Threads |-> << >>]
    /\ deployment_retries = [t \in Threads |-> 0]
    /\ best_score = [t \in Threads |-> -1]
    /\ best_allocator = [t \in Threads |-> NoAllocator]
    /\ name = [t \in Threads |-> 0]
    /\ result = [t \in Threads |-> "none"]
    /\ rated = [t \in Threads |-> << >>]
    /\ passes = [t \in Threads |-> 0]
    /\ deploys = [t \in Threads |-> 0]
    /\ lastOutcome = [t \in Threads |-> "none"]
    /\ clusterLock = NoThread
    /\ local_allocators = [h \in HostIps |-> 0]
    /\ created = [h \in HostIps |-> 0]
    /\ host_ip = [t \in Threads |-> 0]
    /\ forwarded = [t \in Threads |-> 0]
    /\ deployLog = << >>
    /\ ops = 0
    /\ observe = obs
    /\ registrable = classes
    /\ rating = << >>

\* Concurrent callers of the manager; the application registers allocators
\* of other classes.
Init == InitWith(FALSE, {"Other"})

(* --------------------------------------------------------------- actions *)

\* A caller issues allocate(desc), add_allocator(a), insert_allocator(i, a)
\* or release(server). The first three start with get_instance(); release
\* starts with server.get_name() and server.cleanup().
Call(t) ==
    /\ pc[t] = "idle"
    /\ ops < MaxOps
    /\ ops' = ops + 1
    /\ \E o \in {"allocate", "add", "insert", "release"} :
           /\ op' = [op EXCEPT ![t] = o]
           /\ pc' = [pc EXCEPT ![t] =
                         IF o = "release" THEN "r_cleanup" ELSE "get"]
    /\ result' = [result EXCEPT ![t] = "none"]
    /\ rated' = [rated EXCEPT ![t] = << >>]
    /\ passes' = [passes EXCEPT ![t] = 0]
    /\ deploys' = [deploys EXCEPT ![t] = 0]
    /\ lastOutcome' = [lastOutcome EXCEPT ![t] = "none"]
    /\ UNCHANGED << managerVars, lock, frameVars, deployLog, scenarioVars,
                    clusterVars >>

\* A get_instance that tests _RAM without taking the lock.
GetInstance_Unlocked(t) ==
    /\ pc[t] = "get"
    /\ pc' = [pc EXCEPT ![t] = IF ram THEN "enter" ELSE "get_new"]
    /\ UNCHANGED lock
    /\ UNCHANGED << managerVars, op, frameVars, histVars, deployLog, ops,
                    scenarioVars, clusterVars >>

\* get_instance: `with _lock: if _RAM is None` ... `return _RAM`. When the
\* manager exists the block returns at once; otherwise the thread goes on
\* to construct it, holding the lock.
GetInstance(t) ==
    /\ pc[t] = "get"
    /\ LockAvailable
    /\ IF ram
       THEN /\ pc' = [pc EXCEPT ![t] = "enter"]
            /\ UNCHANGED lock
       ELSE /\ pc' = [pc EXCEPT ![t] = "get_new"]
            /\ lock' = t
    /\ UNCHANGED << managerVars, op, frameVars, histVars, deployLog, ops,
                    scenarioVars, clusterVars >>

\* A block that is left without releasing the lock.
ReleaseLock_Never(t) == lock' = lock

\* Leaving a `with _lock:` block, by return or by exception.
ReleaseLock(t) == lock' = IF lock = t THEN NoThread ELSE lock

\* get_instance: _RAM = ResourceAllocationManager(); __init__ sets
\* _allocations = 0 and _allocators = [LocalAllocator()]; the lock is
\* released on leaving the with block.
GetInstanceNew(t) ==
    /\ pc[t] = "get_new"
    /\ ram' = TRUE
    /\ ramCreated' = ramCreated + 1
    /\ allocations' = 0
    /\ allocators' = << "Local" >>
    /\ ReleaseLock(t)
    /\ pc' = [pc EXCEPT ![t] = "enter"]
    /\ UNCHANGED << op, frameVars, histVars, deployLog, ops, scenarioVars,
                    clusterVars >>

\* A call returns to its caller (or raises): its locals go out of scope.
\* res tells how the call ended; the history of the call is kept only
\* when it is observed.
Return(t, res) ==
    /\ pc' = [pc EXCEPT ![t] = "idle"]
    /\ op' = [op EXCEPT ![t] = "none"]
    /\ resource_desc' = [resource_desc EXCEPT ![t] = << >>]
    /\ deployment_retries' = [deployment_retries EXCEPT ![t] = 0]
    /\ best_score' = [best_score EXCEPT ![t] = -1]
    /\ best_allocator' = [best_allocator EXCEPT ![t] = NoAllocator]
    /\ name' = [name EXCEPT ![t] = 0]
    /\ rated' = [rated EXCEPT ![t] = IF observe THEN @ ELSE << >>]
    /\ result' = [result EXCEPT ![t] = IF observe THEN res ELSE "none"]
    /\ IF observe
       THEN UNCHANGED << passes, deploys >>
       ELSE /\ passes' = [passes EXCEPT ![t] = 0]
            /\ deploys' = [deploys EXCEPT ![t] = 0]

\* An append made without taking the lock.
AddAllocator_Unguarded(t) ==
    /\ pc[t] = "enter" /\ op[t] = "add"
    /\ \E a \in NewAllocators : allocators' = Append(allocators, a)
    /\ Return(t, "none")
    /\ UNCHANGED << ram, ramCreated, allocations, lock, lastOutcome,
                    deployLog, ops, scenarioVars, clusterVars >>

\* add_allocator: `with _lock: ram._allocators.append(allocator)`.
AddAllocator(t) ==
    /\ pc[t] = "enter" /\ op[t] = "add"
    /\ LockAvailable
    /\ \E a \in NewAllocators : allocators' = Append(allocators, a)
    /\ Return(t, "none")
    /\ UNCHANGED << ram, ramCreated, allocations, lock, lastOutcome,
                    deployLog, ops, scenarioVars, clusterVars >>

\* insert_allocator: `with _lock: ram._allocators.insert(index, allocator)`.
InsertAllocator(t) ==
    /\ pc[t] = "enter" /\ op[t] = "insert"
    /\ LockAvailable
    /\ \E a \in NewAllocators, index \in -1 .. Len(allocators) :
           allocators' = ListInsert(allocators, index, a)
    /\ Return(t, "none")
    /\ UNCHANGED << ram, ramCreated, allocations, lock, lastOutcome,
                    deployLog, ops, scenarioVars, clusterVars >>

\* An allocate that calls _allocate outside the with block.
AllocateEnter_Unlocked(t) ==
    /\ pc[t] = "enter" /\ op[t] = "allocate"
    /\ LockAvailable
    /\ UNCHANGED lock
    /\ \E d \in Requests : resource_desc' = [resource_desc EXCEPT ![t] = d]
    /\ deployment_retries' = [deployment_retries EXCEPT ![t] = 0]
    /\ best_score' = [best_score EXCEPT ![t] = -1]
    /\ pc' = [pc EXCEPT ![t] = "a_score"]
    /\ UNCHANGED << managerVars, op, best_allocator, name, histVars,
                    deployLog, ops, scenarioVars, clusterVars >>

\* allocate: `with _lock: return ram._allocate(resource_desc)`; _allocate
\* starts with deployment_retries = 0 and best_score = -1. The request the
\* caller passed is first read here, so it is drawn here.
AllocateEnter(t) ==
    /\ pc[t] = "enter" /\ op[t] = "allocate"
    /\ LockAvailable
    /\ lock' = t
    /\ \E d \in Requests : resource_desc' = [resource_desc EXCEPT ![t] = d]
    /\ deployment_retries' = [deployment_retries EXCEPT ![t] = 0]
    /\ best_score' = [best_score EXCEPT ![t] = -1]
    /\ pc' = [pc EXCEPT ![t] = "a_score"]
    /\ UNCHANGED << managerVars, op, best_allocator, name, histVars,
                    deployLog, ops, scenarioVars, clusterVars >>

\* _allocate, `while best_score == -1:` one call of _get_scores, which asks
\* every allocator of the list for its score.
ScorePass(t) ==
    /\ pc[t] = "a_score"
    /\ best_score[t] = -1
    /\ LET vectors == RateVectors(allocators, resource_desc[t])
       IN  IF observe
           THEN \E sc \in vectors :
                   /\ best_score' = [best_score EXCEPT ![t] = GetScores(sc)[1]]
                   /\ best_allocator' =
                          [best_allocator EXCEPT ![t] = GetScores(sc)[2]]
                   /\ rated' = [rated EXCEPT ![t] = sc]
           ELSE \E best \in { GetScores(sc) : sc \in vectors } :
                   /\ best_score' = [best_score EXCEPT ![t] = best[1]]
                   /\ best_allocator' = [best_allocator EXCEPT ![t] = best[2]]
                   /\ UNCHANGED rated
    /\ passes' = [passes EXCEPT ![t] = passes[t] + 1]
    /\ pc' = [pc EXCEPT ![t] = "a_scored"]
    /\ UNCHANGED << managerVars, lock, op, resource_desc, deployment_retries,
                    name, result, deploys, lastOutcome, deployLog, ops,
                    scenarioVars, clusterVars >>

\* _get_scores has no try/except around allocator.rate_resource, nor has
\* _allocate or allocate: an exception raised while rating (the base class
\* raises NotImplementedError, os.getloadavg may raise OSError) leaves
\* allocate, and the with block releases the lock.
ScoreFault(t) ==
    /\ pc[t] = "a_score"
    /\ best_score[t] = -1
    /\ Return(t, "score_fault")
    /\ ReleaseLock(t)
    /\ UNCHANGED << managerVars, lastOutcome, deployLog, ops, scenarioVars,
                    clusterVars >>

\* A pass that goes on to deploy without incrementing the counter.
Increment_Skipped(t) ==
    /\ pc[t] = "a_scored"
    /\ best_score[t] >= 0
    /\ allocations < MaxAllocations
    /\ UNCHANGED allocations
    /\ rated' = [rated EXCEPT ![t] = << >>]
    /\ pc' = [pc EXCEPT ![t] = "a_name"]
    /\ UNCHANGED << ram, ramCreated, allocators, lock, op, frameVars, result,
                    passes, deploys, lastOutcome, deployLog, ops,
                    scenarioVars, clusterVars >>

\* _allocate, `if best_score >= 0: self._allocations += 1`.
Increment(t) ==
    /\ pc[t] = "a_scored"
    /\ best_score[t] >= 0
    /\ allocations < MaxAllocations
    /\ allocations' = allocations + 1
    /\ rated' = [rated EXCEPT ![t] = << >>]
    /\ pc' = [pc EXCEPT ![t] = "a_name"]
    /\ UNCHANGED << ram, ramCreated, allocators, lock, op, frameVars, result,
                    passes, deploys, lastOutcome, deployLog, ops,
                    scenarioVars, clusterVars >>

\* `name = 'Sim-%d' % self._allocations` and the call of
\* best_allocator.deploy(name, resource_desc).
DeployCall(t) ==
    /\ pc[t] = "a_name"
    /\ name' = [name EXCEPT ![t] = allocations]
    /\ deployLog' = Append(deployLog, allocations)
    /\ deploys' = [deploys EXCEPT ![t] = deploys[t] + 1]
    /\ pc' = [pc EXCEPT ![t] = "a_deploy"]
    /\ UNCHANGED << managerVars, lock, op, resource_desc, deployment_retries,
                    best_score, best_allocator, result, rated, passes,
                    lastOutcome, ops, scenarioVars, clusterVars >>

\* A retry test that gives up one failure early.
GiveUp_OffByOne(retries) == retries >= RetryLimit

\* _allocate, `if deployment_retries > 10:` after the increment.
GiveUp(retries) == retries > RetryLimit

\* A deploy call wrapped in a handler that swallows every exception.
Propagates_Caught(outcome) == FALSE

\* No try/except encloses the deploy call in _allocate: an exception
\* raised by deploy leaves _allocate and allocate.
Propagates(outcome) == outcome = "raise"

\* What _allocate does with the outcome of deploy (resource.py:82-99).
AfterDeploy(t, outcome) ==
    /\ lastOutcome' = [lastOutcome EXCEPT ![t] =
                           IF observe THEN outcome ELSE "none"]
    /\ IF outcome = "server"
       THEN Return(t, "handle") /\ ReleaseLock(t)
       ELSE IF Propagates(outcome)
       THEN Return(t, "deploy_fault") /\ ReleaseLock(t)
       ELSE IF GiveUp(deployment_retries[t] + 1)
       THEN Return(t, "nil") /\ ReleaseLock(t)
       ELSE /\ deployment_retries' =
                  [deployment_retries EXCEPT ![t] = deployment_retries[t] + 1]
            /\ best_score' = [best_score EXCEPT ![t] = -1]
            /\ pc' = [pc EXCEPT ![t] = "a_score"]
            /\ UNCHANGED << lock, op, resource_desc, best_allocator, name,
                            result, rated, passes, deploys >>

\* The deploy call of the winning allocator, when it is not the
\* ClusterAllocator, returns or raises.
DeployReturn(t) ==
    /\ pc[t] = "a_deploy"
    /\ op[t] = "allocate"
    /\ allocators[best_allocator[t]] # "Cluster"
    /\ \E outcome \in DeployOutcomes : AfterDeploy(t, outcome)
    /\ UNCHANGED << managerVars, deployLog, ops, scenarioVars, clusterVars >>

\* _allocate, `elif best_score != -1: return (None, None)`.
ReturnUnsupported(t) ==
    /\ pc[t] = "a_scored"
    /\ ~(best_score[t] >= 0)
    /\ best_score[t] # -1
    /\ Return(t, "nil")
    /\ ReleaseLock(t)
    /\ UNCHANGED << managerVars, lastOutcome, deployLog, ops, scenarioVars,
                    clusterVars >>

\* _allocate, `else: time.sleep(1)`: the module never imports time, so the
\* statement raises NameError, which leaves _allocate and allocate.
ShortageSleep(t) ==
    /\ pc[t] = "a_scored"
    /\ ~(best_score[t] >= 0)
    /\ best_score[t] = -1
    /\ Return(t, "name_error")
    /\ ReleaseLock(t)
    /\ UNCHANGED << managerVars, lastOutcome, deployLog, ops, scenarioVars,
                    clusterVars >>

\* A handler that catches a narrower class than the one raised.
CleanupCaught_Narrow(outcome) == FALSE

\* release, `try: server.cleanup()` / `except Exception:` catches what
\* cleanup raises.
CleanupCaught(outcome) == outcome = "Exception"

\* release: name = server.get_name(), then server.cleanup() inside the try.
\* When cleanup returns, release returns (`del server`); when it raises,
\* the handler goes on to get_instance().
ReleaseCleanup(t) ==
    /\ pc[t] = "r_cleanup" /\ op[t] = "release"
    /\ \E outcome \in CleanupOutcomes :
           IF outcome = "ok"
           THEN Return(t, "released")
           ELSE IF CleanupCaught(outcome)
           THEN /\ pc' = [pc EXCEPT ![t] = "get"]
                /\ UNCHANGED << op, frameVars, result, rated, passes,
                                deploys >>
           ELSE Return(t, "cleanup_fault")
    /\ UNCHANGED << managerVars, lock, lastOutcome, deployLog, ops,
                    scenarioVars, clusterVars >>

\* release, the handler after get_instance(): ram._logger.warning(...);
\* when that raises, the inner handler prints to sys.stderr. Either way
\* release returns.
ReleaseLog(t) ==
    /\ pc[t] = "enter" /\ op[t] = "release"
    /\ \E logged \in LogOutcomes :
           Return(t, IF logged = "ok" THEN "logged" ELSE "printed")
    /\ UNCHANGED << managerVars, lock, lastOutcome, deployLog, ops,
                    scenarioVars, clusterVars >>

\* A caller calls deploy of the ClusterAllocator itself, not through the
\* manager.
CallClusterDeploy(t) ==
    /\ pc[t] = "idle"
    /\ ops < MaxOps
    /\ ops' = ops + 1
    /\ op' = [op EXCEPT ![t] = "cluster_deploy"]
    /\ pc' = [pc EXCEPT ![t] = "a_deploy"]
    /\ UNCHANGED << managerVars, lock, frameVars, histVars, clusterVars,
                    deployLog, scenarioVars >>

\* The thread is inside ClusterAllocator.deploy.
InClusterDeploy(t) ==
    \/ op[t] = "cluster_deploy"
    \/ op[t] = "allocate" /\ allocators[best_allocator[t]] = "Cluster"

\* ClusterAllocator.deploy: `manager = self.cluster.get_host_manager()`
\* and the host_ip it resolves to (resource.py:329-339).
ClusterResolve(t) ==
    /\ pc[t] = "a_deploy"
    /\ InClusterDeploy(t)
    /\ \E h \in HostIps : host_ip' = [host_ip EXCEPT ![t] = h]
    /\ forwarded' = [forwarded EXCEPT ![t] = 0]
    /\ pc' = [pc EXCEPT ![t] = "c_lock"]
    /\ UNCHANGED << managerVars, lock, op, frameVars, histVars, clusterLock,
                    local_allocators, created, deployLog, ops, scenarioVars >>

\* `with self._lock: if host_ip not in self.local_allocators`. When the
\* entry exists the block is left at once; otherwise the thread goes on to
\* create the entry, holding the lock.
ClusterEnter(t) ==
    /\ pc[t] = "c_lock"
    /\ ClusterLockAvailable
    /\ IF local_allocators[host_ip[t]] = 0
       THEN /\ clusterLock' = t
            /\ pc' = [pc EXCEPT ![t] = "c_create"]
       ELSE /\ UNCHANGED clusterLock
            /\ pc' = [pc EXCEPT ![t] = "c_forward"]
    /\ UNCHANGED << managerVars, lock, op, frameVars, histVars,
                    local_allocators, created, host_ip, forwarded, deployLog,
                    ops, scenarioVars >>

\* A creation that leaves the with block without releasing the lock.
ClusterCreate_KeepLock(t) ==
    /\ pc[t] = "c_create"
    /\ created' = [created EXCEPT ![host_ip[t]] = @ + 1]
    /\ local_allocators' =
           [local_allocators EXCEPT ![host_ip[t]] = created[host_ip[t]] + 1]
    /\ UNCHANGED clusterLock
    /\ pc' = [pc EXCEPT ![t] = "c_forward"]
    /\ UNCHANGED << managerVars, lock, op, frameVars, histVars, host_ip,
                    forwarded, deployLog, ops, scenarioVars >>

\* `self.local_allocators[host_ip] = manager.LocalAllocator()`, and the
\* with block is left.
ClusterCreate(t) ==
    /\ pc[t] = "c_create"
    /\ created' = [created EXCEPT ![host_ip[t]] = @ + 1]
    /\ local_allocators' =
           [local_allocators EXCEPT ![host_ip[t]] = created[host_ip[t]] + 1]
    /\ clusterLock' = IF clusterLock = t THEN NoThread ELSE clusterLock
    /\ pc' = [pc EXCEPT ![t] = "c_forward"]
    /\ UNCHANGED << managerVars, lock, op, frameVars, histVars, host_ip,
                    forwarded, deployLog, ops, scenarioVars >>

\* `return self.local_allocators[host_ip].deploy(name, resource_desc)`:
\* the cached instance deploys, and its outcome goes to the caller: to
\* _allocate, or to the thread that called deploy itself.
ClusterForward(t) ==
    /\ pc[t] = "c_forward"
    /\ forwarded' = [forwarded EXCEPT ![t] =
                         IF observe THEN local_allocators[host_ip[t]] ELSE 0]
    /\ host_ip' = [host_ip EXCEPT ![t] = 0]
    /\ \E outcome \in DeployOutcomes :
           IF op[t] = "allocate"
           THEN AfterDeploy(t, outcome)
           ELSE Return(t, "none") /\ UNCHANGED << lock, lastOutcome >>
    /\ UNCHANGED << managerVars, clusterLock, local_allocators, created,
                    deployLog, ops, scenarioVars >>

\* One step of caller t in the manager's code.
ManagerStep(t) ==
    \/ Call(t)
    \/ GetInstance(t)
    \/ GetInstanceNew(t)
    \/ AddAllocator(t)
    \/ InsertAllocator(t)
    \/ AllocateEnter(t)
    \/ ScorePass(t)
    \/ ScoreFault(t)
    \/ Increment(t)
    \/ DeployCall(t)
    \/ DeployReturn(t)
    \/ ReturnUnsupported(t)
    \/ ShortageSleep(t)
    \/ ReleaseCleanup(t)
    \/ ReleaseLog(t)

\* One step of caller t in ClusterAllocator.deploy.
ClusterStep(t) ==
    \/ ClusterResolve(t)
    \/ ClusterEnter(t)
    \/ ClusterCreate(t)
    \/ ClusterForward(t)

\* Concurrent callers of the manager.
Next == \E t \in Threads : ManagerStep(t)

Spec == Init /\ [][Next]_vars

\* One caller, with the history of each call recorded; the application
\* also registers its ClusterAllocator.
InitSeq == InitWith(TRUE, {"Other", "Cluster"})

NextSeq == ManagerStep(1) \/ ClusterStep(1)

SpecSeq == InitSeq /\ [][NextSeq]_vars

\* One caller of the manager, which registers the application's
\* ClusterAllocator with it, next to concurrent callers of
\* ClusterAllocator.deploy.
InitNest == InitWith(FALSE, {"Cluster"})

NextNest ==
    \/ ManagerStep(1)
    \/ ClusterStep(1)
    \/ \E t \in Threads \ {1} : CallClusterDeploy(t) \/ ClusterStep(t)

SpecNest == InitNest /\ [][NextNest]_vars

\* A caller rates one request with a LocalAllocator of its own, under
\* some load of the host.
RateLocal ==
    /\ rating = << >>
    /\ \E desc \in RateRequests, load \in Loads :
           rating' = << desc, load, rate_resource(desc, load) >>
    /\ UNCHANGED << managerVars, lock, pc, op, frameVars, histVars,
                    clusterVars, deployLog, ops, observe, registrable >>

\* LocalAllocator.rate_resource on its own, over the requests and loads.
NextRate == RateLocal

SpecRate == InitSeq /\ [][NextRate]_vars

\* Concurrent callers of ClusterAllocator.deploy, with the history recorded.
NextCluster == \E t \in Threads : CallClusterDeploy(t) \/ ClusterStep(t)

SpecCluster == InitSeq /\ [][NextCluster]_vars

(* ---------------------------------------------------------------- claims *)

\* The thread has run a scoring pass whose scores are on record.
Scored(t) == pc[t] = "a_scored" /\ rated[t] # << >>

\* C1: whenever at least one allocator rates the request >= 0, the best
\* score is >= 0 and the selected allocator is one that rated >= 0; the best
\* score is -1 only when no allocator rated >= 0.
C1_ServerBeatsNonServer ==
    \A t \in Threads :
        Scored(t) =>
            /\ (\E i \in DOMAIN rated[t] : rated[t][i] >= 0) =>
                   /\ best_score[t] >= 0
                   /\ best_allocator[t] # NoAllocator
                   /\ rated[t][best_allocator[t]] >= 0
            /\ best_score[t] = -1 =>
                   \A i \in DOMAIN rated[t] : rated[t][i] < 0

\* The running best score of _get_scores after the first i allocators.
RunningBest(sc, i) == GetScores(SubSeq(sc, 1, i))[1]

\* C2: once the running best is a positive estimate, it is replaced only by
\* a positive, strictly lower score, never by a later 0, -1 or -2; hence
\* the allocator selected is then the one with the lowest positive estimate.
C2_LowestEstimateWins ==
    \A t \in Threads :
        Scored(t) =>
            \A i \in DOMAIN rated[t] :
                RunningBest(rated[t], i) > 0 =>
                    /\ \A j \in DOMAIN rated[t] :
                           j >= i =>
                               /\ RunningBest(rated[t], j) > 0
                               /\ RunningBest(rated[t], j)
                                      <= RunningBest(rated[t], i)
                    /\ best_score[t] > 0
                    /\ rated[t][best_allocator[t]] = best_score[t]
                    /\ \A j \in DOMAIN rated[t] :
                           rated[t][j] > 0 => best_score[t] <= rated[t][j]

\* C3: if several allocators return the same score as the allocator that
\* allocate selects, the selected one is at the lowest list index among them.
C3_FirstOfTiedWins ==
    \A t \in Threads :
        (Scored(t) /\ best_score[t] >= 0) =>
            \A i \in DOMAIN rated[t] :
                rated[t][i] = rated[t][best_allocator[t]] =>
                    best_allocator[t] <= i

\* C4: when every scoring pass of a call led to a deploy and every deploy
\* returned None, the call returns (None, None) after exactly 11 scoring
\* passes and 11 deploy calls; no call ever issues a 12th deploy.
C4_RetryBound ==
    \A t \in Threads :
        /\ deploys[t] <= RetryLimit + 1
        /\ (result[t] = "nil" /\ passes[t] = deploys[t]) =>
               /\ passes[t] = RetryLimit + 1
               /\ deploys[t] = RetryLimit + 1
               /\ lastOutcome[t] = "None"

\* A call has returned (None, None) after its 11th failed deploy.
C4_Witness ==
    \E t \in Threads :
        /\ pc[t] = "idle"
        /\ result[t] = "nil"
        /\ passes[t] = RetryLimit + 1
        /\ deploys[t] = RetryLimit + 1

\* C5: no two deploy calls receive the same name 'Sim-<n>', and the names
\* are strictly increasing in the order the deploy calls are issued, for
\* every interleaving of concurrent allocate calls.
C5_UniqueNames ==
    \A i, j \in DOMAIN deployLog :
        i < j => deployLog[i] < deployLog[j]

\* A second name is about to be formed while another caller has issued an
\* allocate of its own.
C5_Witness ==
    \E t, u \in Threads :
        /\ t # u
        /\ pc[t] = "a_name" /\ allocations >= 2
        /\ op[u] = "allocate" /\ pc[u] \in {"get", "enter"}

\* Caller t is inside _allocate.
InsideAllocate(t) ==
    /\ op[t] = "allocate"
    /\ pc[t] \in {"a_score", "a_scored", "a_name", "a_deploy", "c_lock",
                  "c_create", "c_forward"}

\* C6 as stated: while an allocate call is about to score or is inside
\* deploy it does not hold the manager's mutex, and a second allocate call
\* waiting at the with block can acquire it.
C6_MutexFreeDuringDeploy ==
    \A t \in Threads :
        (op[t] = "allocate" /\ pc[t] \in {"a_score", "a_deploy"}) =>
            /\ lock # t
            /\ \A u \in Threads \ {t} :
                   (op[u] = "allocate" /\ pc[u] = "enter") =>
                       ENABLED AllocateEnter(u)

\* C6 amended: the mutex is held by the calling thread for the whole of
\* _allocate, every scoring pass and deploy call included, and no other
\* caller is inside _allocate or the construction of the manager meanwhile.
C6_MutexHeldThroughout ==
    \A t \in Threads :
        InsideAllocate(t) =>
            /\ lock = t
            /\ \A u \in Threads \ {t} :
                   ~InsideAllocate(u) /\ pc[u] # "get_new"

\* One allocate is inside deploy while a second one waits at the with
\* block.
C6_Witness ==
    \E t, u \in Threads :
        /\ t # u
        /\ pc[t] = "a_deploy" /\ op[t] = "allocate"
        /\ pc[u] = "enter" /\ op[u] = "allocate"

\* Caller u has issued add_allocator or insert_allocator and has not yet
\* changed the list.
PendingRegistration(u) ==
    /\ op[u] \in {"add", "insert"}
    /\ pc[u] \in {"get", "enter"}

\* C7 as stated: a registration issued while another thread's allocate is
\* in progress can take its next step, so that it completes in time for the
\* next scoring pass of that allocate.
C7_RegistrationProceeds ==
    \A t, u \in Threads :
        (InsideAllocate(t) /\ PendingRegistration(u)) =>
            ENABLED (GetInstance(u) \/ AddAllocator(u) \/ InsertAllocator(u))

\* C7 amended: while an allocate call is inside _allocate the allocator
\* list does not change and a pending registration does not advance; it
\* proceeds only once that call has left _allocate.
C7_RegistrationWaits ==
    [][\A t \in Threads :
           InsideAllocate(t) =>
               /\ allocators' = allocators
               /\ \A u \in Threads :
                      PendingRegistration(u) =>
                          /\ pc'[u] = pc[u]
                          /\ op'[u] = op[u]]_vars

\* An allocate is about to run a scoring pass after a failed deploy while
\* a registration waits at the with block.
C7_Witness ==
    \E t, u \in Threads :
        /\ InsideAllocate(t) /\ pc[t] = "a_score" /\ passes[t] >= 1
        /\ PendingRegistration(u) /\ pc[u] = "enter"

\* The ClusterAllocator's cache holds at most the first instance created
\* for each host, and every forwarded deploy went to that instance.
ClusterCacheConsistent ==
    /\ \A h \in HostIps :
           /\ created[h] <= 1
           /\ local_allocators[h] = created[h]
    /\ \A t \in Threads :
           /\ forwarded[t] \in {0, 1}
           /\ pc[t] = "c_forward" => local_allocators[host_ip[t]] = 1

\* C8: for every interleaving of concurrent ClusterAllocator.deploy calls
\* exactly one per-host allocator is created per host, every call forwards
\* to that instance, and an entry once created is never replaced or removed.
C8_OneAllocatorPerHost ==
    /\ []ClusterCacheConsistent
    /\ [][\A h \in HostIps :
              local_allocators[h] # 0 =>
                  local_allocators'[h] = local_allocators[h]]_vars

\* Two concurrent deploy calls resolved to the same unseen host; one
\* created the entry and both are about to forward.
C8_Witness ==
    \E t, u \in Threads :
        /\ t # u
        /\ pc[t] = "c_forward" /\ pc[u] = "c_forward"
        /\ host_ip[t] = host_ip[u]
        /\ created[host_ip[t]] = 1
        /\ ops = 2

\* C9 as stated: an exception raised by deploy never leaves allocate.
C9_FaultContained ==
    \A t \in Threads : result[t] # "deploy_fault"

\* C9 amended: an exception raised by the winning allocator's deploy
\* propagates out of allocate at once: the call ends with that exception,
\* no further scoring pass or deploy is made, and the mutex is released.
C9_FaultPropagates ==
    \A t \in Threads :
        lastOutcome[t] = "raise" =>
            /\ pc[t] = "idle"
            /\ result[t] = "deploy_fault"
            /\ passes[t] = deploys[t]
            /\ lock # t

\* A deploy raised after an earlier deploy of the same call had failed.
C9_Witness ==
    \E t \in Threads :
        /\ result[t] = "deploy_fault"
        /\ lastOutcome[t] = "raise"
        /\ deploys[t] >= 2

\* Every allocator of the list rated the request -2 in the pass just made.
AllUnsupported(t) ==
    /\ Scored(t)
    /\ \A i \in DOMAIN rated[t] : rated[t][i] = -2

\* C10: when every registered allocator rates the request -2, the next
\* step of the call returns (None, None): no deploy, no further scoring
\* pass, no shortage wait, the allocation counter unchanged; on the first
\* pass that is a return after a single pass and no deploy.
C10_FailFast ==
    [][\A t \in Threads :
           AllUnsupported(t) =>
               /\ pc'[t] = "idle"
               /\ result'[t] = "nil"
               /\ passes'[t] = passes[t]
               /\ deploys'[t] = deploys[t]
               /\ passes[t] = 1 => deploys[t] = 0
               /\ allocations' = allocations
               /\ deployLog' = deployLog
               /\ lock' = NoThread]_vars

\* A call has returned (None, None) after one scoring pass in which every
\* allocator, more than one of them, rated -2.
C10_Witness ==
    \E t \in Threads :
        /\ pc[t] = "idle"
        /\ result[t] = "nil"
        /\ Len(rated[t]) >= 2
        /\ \A i \in DOMAIN rated[t] : rated[t][i] = -2
        /\ passes[t] = 1
        /\ deploys[t] = 0

\* C11: if the handle's cleanup raises, release logs it (or prints it when
\* logging raises too) and returns normally; no fault leaves release, and
\* no step of release changes the allocator list of an existing manager or
\* the allocation counter.
C11_BestEffortRelease ==
    [][\A t \in Threads :
           (op[t] = "release" /\ pc'[t] # pc[t]) =>
               /\ pc'[t] = "idle" =>
                      result'[t] \in {"released", "logged", "printed"}
               /\ pc[t] = "enter" =>
                      pc'[t] = "idle" /\ result'[t] \in {"logged", "printed"}
               /\ ram => allocators' = allocators
               /\ allocations' = allocations]_vars

\* A release whose cleanup raised, and whose logging raised too, has
\* returned, after handles had been allocated.
C11_Witness ==
    \E t \in Threads :
        /\ pc[t] = "idle"
        /\ result[t] = "printed"
        /\ allocations >= 1
        /\ Len(allocators) >= 2

\* C12: for every request that holds a key outside the recognized set,
\* LocalAllocator.rate_resource returns -2 and criteria without the load
\* figures, whatever the other keys and the order the keys are visited in.
C12_StrictAllowList ==
    rating # << >> =>
        ((\E i \in DOMAIN rating[1] : rating[1][i][1] \notin RecognizedKeys)
            => /\ rating[3][1] = -2
               /\ rating[3][2][1] # "loadavgs")

\* A request whose first key passes its check and whose second key is
\* unrecognized was rated under a load below max_load.
C12_Witness ==
    /\ rating # << >>
    /\ Len(rating[1]) = 2
    /\ rating[1][1] = <<"n_cpus", 1>>
    /\ rating[1][2][1] \notin RecognizedKeys
    /\ rating[2] = 1
    /\ rating[3][1] = -2

\* C13 as stated: no thread holds the manager's mutex and the
\* ClusterAllocator's cache mutex at the same time.
C13_LocksNeverNest ==
    \A t \in Threads : ~(lock = t /\ clusterLock = t)

\* The cache mutex is held only while an entry is created, together with
\* the manager's mutex exactly when the deploy was called by allocate.
CacheLockScope ==
    \A t \in Threads :
        clusterLock = t =>
            /\ pc[t] = "c_create"
            /\ lock = t <=> op[t] = "allocate"

\* C13 amended: the two mutexes nest in one order only: an allocate call
\* whose winner is the ClusterAllocator takes the cache mutex while it
\* holds the manager's mutex, the cache mutex is released before the deploy
\* is forwarded, and no thread takes the manager's mutex while it holds
\* the cache mutex.
C13_NestOneWay ==
    /\ []CacheLockScope
    /\ [][\A t \in Threads :
              (clusterLock = t /\ lock # t) => lock' # t]_vars

\* An allocate call creates the cache entry holding both mutexes while
\* another thread is inside a deploy it called itself.
C13_Witness ==
    \E t, u \in Threads :
        /\ t # u
        /\ pc[t] = "c_create" /\ op[t] = "allocate"
        /\ lock = t /\ clusterLock = t
        /\ op[u] = "cluster_deploy" /\ pc[u] = "c_lock"

\* C14: every time selection yields exactly -1, allocate neither returns
\* nor raises: its next step leads back to selection, with the allocation
\* counter and the deployment-retry counter unchanged.
C14_ShortagePolls ==
    [][\A t \in Threads :
           (op[t] = "allocate" /\ pc[t] = "a_scored" /\ best_score[t] = -1
                /\ pc'[t] # pc[t]) =>
               /\ pc'[t] = "a_score"
               /\ allocations' = allocations
               /\ deployment_retries'[t] = deployment_retries[t]]_vars

\* C15: an allocate call in which no allocator raised ends by returning
\* (handle, metadata) or (None, None), after at most 11 deploy calls,
\* whatever the scores and the deploy outcomes were.
C15_AllocateReturns ==
    \A t \in Threads :
        (pc[t] = "idle" /\ passes[t] >= 1
             /\ result[t] \notin {"deploy_fault", "score_fault"}) =>
            /\ result[t] \in {"handle", "nil"}
            /\ deploys[t] <= RetryLimit + 1

\* The sequence s without its k-th element.
RemoveAt(s, k) == SubSeq(s, 1, k - 1) \o SubSeq(s, k + 1, Len(s))

\* The list of an existing manager is non-empty and holds the default
\* LocalAllocator.
ListNonEmpty ==
    ram => /\ Len(allocators) >= 1
           /\ \E i \in DOMAIN allocators : allocators[i] = "Local"

\* C16: the manager's allocator list is non-empty from construction on,
\* its length never decreases, and a step that changes it adds one
\* allocator and keeps the others in their relative order.
C16_AllocatorList ==
    /\ []ListNonEmpty
    /\ [][ram =>
              \/ allocators' = allocators
              \/ /\ Len(allocators') = Len(allocators) + 1
                 /\ \E k \in DOMAIN allocators' :
                        RemoveAt(allocators', k) = allocators]_vars

\* Allocators were appended and inserted, one of them in front of the
\* default LocalAllocator.
C16_Witness ==
    /\ Len(allocators) >= 3
    /\ allocators[1] # "Local"

\* At most one manager was constructed, and a caller past get_instance
\* holds it.
OneManager ==
    /\ ramCreated <= 1
    /\ ram <=> ramCreated = 1
    /\ \A t \in Threads : pc[t] \notin {"idle", "get", "get_new", "r_cleanup"}
                              => ram

\* C17: for every interleaving of concurrent first calls of get_instance
\* exactly one manager is constructed, every caller obtains it, and it is
\* never replaced afterwards.
C17_Singleton ==
    /\ []OneManager
    /\ [][ram => (ram' /\ ramCreated' = ramCreated)]_vars

\* Two callers whose first calls ran get_instance concurrently both hold
\* the one manager.
C17_Witness ==
    \E t, u \in Threads :
        /\ t # u
        /\ pc[t] = "enter" /\ pc[u] = "enter"
        /\ ops = 2
        /\ ramCreated = 1

\* Item <<key, value>> passes the check of its key: the key is recognized,
\* locality is not false, the CPU count is at most total_cpus, nothing is
\* missing, the version is equal.
PassesCheck(item) ==
    /\ item[1] \in RecognizedKeys
    /\ item[1] = "localhost" => item[2] # FALSE
    /\ item[1] = "n_cpus" => item[2] <= total_cpus
    /\ item[1] \in {"required_distributions", "orphan_modules"} =>
           item[2] = {}
    /\ item[1] = "python_version" => item[2] = PythonVersion

\* C18: for a request all of whose keys pass their checks, and a host that
\* reports a load average, rate_resource returns 0 when the load is below
\* max_load and -1 when it is equal or above, with the load figures as
\* the criteria in both cases.
C18_LoadRule ==
    (/\ rating # << >>
     /\ \A i \in DOMAIN rating[1] : PassesCheck(rating[1][i])
     /\ rating[2] # NoLoadAvg) =>
        /\ rating[3][1] = IF rating[2] < max_load THEN 0 ELSE -1
        /\ rating[3][2] = << "loadavgs", rating[2], max_load >>

\* A request of two passing keys was rated under a load equal to max_load.
C18_Witness ==
    /\ rating # << >>
    /\ Len(rating[1]) = 2
    /\ \A i \in DOMAIN rating[1] : PassesCheck(rating[1][i])
    /\ rating[2] = max_load
    /\ rating[3][1] = -1

\* C19: the manager's mutex is held only by a thread that is inside a
\* critical section (the construction of the manager, or _allocate); a
\* thread whose call has ended, however it ended, does not hold it.
C19_MutexReleased ==
    /\ lock \in Threads \cup {NoThread}
    /\ \A t \in Threads :
           lock = t => (pc[t] = "get_new" \/ InsideAllocate(t))

\* An allocate call has ended by a fault raised in scoring, after a failed
\* deploy, and the mutex is free.
C19_Witness ==
    \E t \in Threads :
        /\ pc[t] = "idle"
        /\ result[t] = "score_fault"
        /\ deploys[t] >= 1
        /\ lock = NoThread

\* The counter equals the number of deploy calls issued, counting the
\* call a thread is about to issue right after its increment, and the
\* names issued are 1, 2, ... in order.
CounterMatchesDeploys ==
    /\ allocations =
           Len(deployLog) + Cardinality({ t \in Threads : pc[t] = "a_name" })
    /\ \A i \in DOMAIN deployLog : deployLog[i] = i

\* C20: the allocation counter equals the number of deploy calls issued
\* since construction, failed ones included; it changes only by the
\* increment by one that precedes each deploy call, so no name is reissued.
C20_CounterAccounting ==
    /\ []CounterMatchesDeploys
    /\ [][allocations' # allocations =>
              /\ allocations' = allocations + 1
              /\ \E t \in Threads :
                     /\ pc[t] = "a_scored" /\ best_score[t] >= 0
                     /\ pc'[t] = "a_name"]_vars

\* A retry after a failed deploy has been given a fresh name while another
\* caller runs a release.
C20_Witness ==
    \E t, u \in Threads :
        /\ t # u
        /\ pc[t] = "a_deploy"
        /\ deployment_retries[t] >= 1
        /\ name[t] = allocations
        /\ Len(deployLog) >= 2
        /\ op[u] = "release"

====
